---- MODULE Spec2Model ----
(***************************************************************************)
(* Model of webscraper/clients.py: the SearchClient base class and its two *)
(* adapters, GoogleCustomSearchClient and BingSearchClient.                *)
(*                                                                         *)
(* A Python dict is a function whose DOMAIN is the set of keys present.    *)
(* None is the empty tuple where the code holds "None or a value" in one   *)
(* field (self.response), so a held value v is the one-element tuple <<v>>.*)
(* An exception is the name of its Python class; "" is a normal return.    *)
(***************************************************************************)
EXTENDS Integers, Sequences, FiniteSets, TLC

VARIABLES clients, last, thr

vars == <<clients, last, thr>>

(***************************************************************************)
(* Bounds of the explored inputs.                                          *)
(***************************************************************************)
\* start/offset values run from one below the pagination floor to IdxSpan above it
IdxSpan == 1
\* a response array has at most MaxItems entries
MaxItems == 2

(***************************************************************************)
(* Construction (clients.py lines 9-15, 50-56, 90-94).                     *)
(***************************************************************************)
EmptyDict == [k \in {} |-> 0]

ApiKey == "API_KEY"
CseId == "CSE_ID"

SearchClient(kind, endpoint, max_results, min_index, headers, params) ==
    [ kind              |-> kind,
      headers           |-> headers,
      params            |-> params,
      endpoint          |-> endpoint,
      max_results_per_q |-> max_results,
      min_index         |-> min_index,
      response          |-> <<>> ]

GoogleCustomSearchClient(cse_id, api_key) ==
    SearchClient("google", "https://www.googleapis.com/customsearch/v1", 10, 1,
                 EmptyDict,
                 [key |-> api_key, cx |-> cse_id, searchType |-> "image"])

BingSearchClient(api_key) ==
    SearchClient("bing", "https://api.cognitive.microsoft.com/bing/v7.0/images/search", 150, 1,
                 [k \in {"Ocp-Apim-Subscription-Key"} |-> api_key],
                 EmptyDict)

Construct(kind) ==
    IF kind = "google" THEN GoogleCustomSearchClient(CseId, ApiKey)
                       ELSE BingSearchClient(ApiKey)

Kinds == {"google", "bing"}

(***************************************************************************)
(* _check_value: the adapters' validation of the keyword arguments.       *)
(* kwargs.pop(k, d) is the value at k, or d when k is absent; what is left *)
(* of kwargs after the two pops is the set of unrecognised keys.           *)
(***************************************************************************)
\* variant: the upper bound on num taken as exclusive
Google_check_value_Exclusive(self, kwargs) ==
    LET hasNum == "num" \in DOMAIN kwargs
        start  == IF "start" \in DOMAIN kwargs THEN kwargs["start"] ELSE 1
        rest   == DOMAIN kwargs \ {"start", "num"}
    IN  IF rest # {} THEN "TypeError"
        ELSE IF ~hasNum THEN "ValueError"
        ELSE IF start < self.min_index THEN "ValueError"
        ELSE IF kwargs["num"] >= self.max_results_per_q \/ kwargs["num"] < self.min_index
             THEN "ValueError"
        ELSE ""

\* variant: the missing-num test made before the leftover-keys test
Google_check_value_MissingFirst(self, kwargs) ==
    LET hasNum == "num" \in DOMAIN kwargs
        start  == IF "start" \in DOMAIN kwargs THEN kwargs["start"] ELSE 1
        rest   == DOMAIN kwargs \ {"start", "num"}
    IN  IF ~hasNum THEN "ValueError"
        ELSE IF rest # {} THEN "TypeError"
        ELSE IF start < self.min_index THEN "ValueError"
        ELSE IF kwargs["num"] > self.max_results_per_q \/ kwargs["num"] < self.min_index
             THEN "ValueError"
        ELSE ""

Google_check_value(self, kwargs) ==
    LET hasNum == "num" \in DOMAIN kwargs
        start  == IF "start" \in DOMAIN kwargs THEN kwargs["start"] ELSE 1
        rest   == DOMAIN kwargs \ {"start", "num"}
    IN  IF rest # {} THEN "TypeError"
        ELSE IF ~hasNum THEN "ValueError"
        ELSE IF start < self.min_index THEN "ValueError"
        ELSE IF kwargs["num"] > self.max_results_per_q \/ kwargs["num"] < self.min_index
             THEN "ValueError"
        ELSE ""

\* variant: offset compared with min_index instead of min_index - 1
Bing_check_value_FloorOne(self, kwargs) ==
    LET hasCount == "count" \in DOMAIN kwargs
        offset   == IF "offset" \in DOMAIN kwargs THEN kwargs["offset"] ELSE 0
        rest     == DOMAIN kwargs \ {"offset", "count"}
    IN  IF rest # {} THEN "TypeError"
        ELSE IF ~hasCount THEN "ValueError"
        ELSE IF offset < self.min_index THEN "ValueError"
        ELSE IF kwargs["count"] > self.max_results_per_q \/ kwargs["count"] < self.min_index
             THEN "ValueError"
        ELSE ""

Bing_check_value(self, kwargs) ==
    LET hasCount == "count" \in DOMAIN kwargs
        offset   == IF "offset" \in DOMAIN kwargs THEN kwargs["offset"] ELSE 0
        rest     == DOMAIN kwargs \ {"offset", "count"}
    IN  IF rest # {} THEN "TypeError"
        ELSE IF ~hasCount THEN "ValueError"
        ELSE IF offset < self.min_index - 1 THEN "ValueError"
        ELSE IF kwargs["count"] > self.max_results_per_q \/ kwargs["count"] < self.min_index
             THEN "ValueError"
        ELSE ""

check_value(self, kwargs) ==
    IF self.kind = "google" THEN Google_check_value(self, kwargs)
                            ELSE Bing_check_value(self, kwargs)

(***************************************************************************)
(* _parse_response: the adapters' mapping of the held response to items.   *)
(* A subscript on an absent key raises KeyError at the first entry, in     *)
(* array order, that lacks a field; nothing is returned then.              *)
(***************************************************************************)
NoReturn == <<>>

Raise(e) == [err |-> e, ret |-> NoReturn]
Return(v) == [err |-> "", ret |-> <<v>>]

GoogleHas(item) ==
    /\ {"mime", "image", "link"} \subseteq DOMAIN item
    /\ {"width", "height", "byteSize", "contextLink"} \subseteq DOMAIN item["image"]

\* variant: hostPage taken from the image link instead of its context link
GoogleItem_HostFromLink(item) ==
    [ type     |-> item["mime"],
      width    |-> item["image"]["width"],
      height   |-> item["image"]["height"],
      size     |-> item["image"]["byteSize"],
      url      |-> item["link"],
      hostPage |-> item["link"] ]

GoogleItem(item) ==
    [ type     |-> item["mime"],
      width    |-> item["image"]["width"],
      height   |-> item["image"]["height"],
      size     |-> item["image"]["byteSize"],
      url      |-> item["link"],
      hostPage |-> item["image"]["contextLink"] ]

BingHas(item) ==
    {"encodingFormat", "width", "height", "contentSize", "contentUrl",
     "hostPageDisplayUrl"} \subseteq DOMAIN item

BingItem(item) ==
    [ type     |-> item["encodingFormat"],
      width    |-> item["width"],
      height   |-> item["height"],
      size     |-> item["contentSize"],
      url      |-> item["contentUrl"],
      hostPage |-> item["hostPageDisplayUrl"] ]

\* variant: an entry that lacks a field is skipped and the loop goes on
RECURSIVE GoogleLoop_SkipBroken(_, _, _)
GoogleLoop_SkipBroken(arr, i, items) ==
    IF i > Len(arr) THEN Return(items)
    ELSE IF ~GoogleHas(arr[i]) THEN GoogleLoop_SkipBroken(arr, i + 1, items)
    ELSE GoogleLoop_SkipBroken(arr, i + 1, Append(items, GoogleItem(arr[i])))

\* the for loop: items.append(...) per entry, KeyError out of the loop
RECURSIVE GoogleLoop(_, _, _)
GoogleLoop(arr, i, items) ==
    IF i > Len(arr) THEN Return(items)
    ELSE IF ~GoogleHas(arr[i]) THEN Raise("KeyError")
    ELSE GoogleLoop(arr, i + 1, Append(items, GoogleItem(arr[i])))

RECURSIVE BingLoop(_, _, _)
BingLoop(arr, i, items) ==
    IF i > Len(arr) THEN Return(items)
    ELSE IF ~BingHas(arr[i]) THEN Raise("KeyError")
    ELSE BingLoop(arr, i + 1, Append(items, BingItem(arr[i])))

Google_parse_response(response) ==
    IF "items" \notin DOMAIN response THEN Raise("KeyError")
    ELSE LET r == GoogleLoop(response["items"], 1, <<>>)
         IN  IF r.err # "" THEN r ELSE Return(r.ret[1])

Bing_parse_response(response) ==
    IF "value" \notin DOMAIN response THEN Raise("KeyError")
    ELSE LET r == BingLoop(response["value"], 1, <<>>)
         IN  IF r.err # "" THEN r
             ELSE IF "nextOffset" \notin DOMAIN response THEN Raise("KeyError")
             ELSE IF "totalEstimatedMatches" \notin DOMAIN response THEN Raise("KeyError")
             ELSE Return(<<r.ret[1], response["nextOffset"],
                           response["totalEstimatedMatches"]>>)

parse_response(kind, response) ==
    IF kind = "google" THEN Google_parse_response(response)
                       ELSE Bing_parse_response(response)

(***************************************************************************)
(* search: dict.update(q=query, **kwargs) keeps every key already held and *)
(* sets q and the keys of kwargs.                                          *)
(***************************************************************************)
NoQuery == "<None>"

Falsy(query) == query = NoQuery \/ query = ""

\* variant: the mapping is rebuilt from the call instead of updated in place
update_Rebuild(params, query, kwargs) ==
    [ k \in {"q"} \cup DOMAIN kwargs |->
        IF k \in DOMAIN kwargs THEN kwargs[k] ELSE query ]

update(params, query, kwargs) ==
    [ k \in DOMAIN params \cup {"q"} \cup DOMAIN kwargs |->
        IF k \in DOMAIN kwargs THEN kwargs[k]
        ELSE IF k = "q" THEN query
        ELSE params[k] ]

\* variant: the keyword arguments are validated after the GET, whose body is dropped
search_GetBeforeCheck(i, query, kwargs, net) ==
    LET self  == clients[i]
        call  == [called |-> TRUE, query |-> query, kwargs |-> kwargs]
        inval == check_value(self, kwargs)
    IN  IF Falsy(query)
        THEN /\ last' = [call |-> call, gets |-> 0, sent |-> <<>>,
                         err |-> "ValueError", ret |-> NoReturn]
             /\ UNCHANGED clients
        ELSE IF inval # ""
        THEN /\ last' = [call |-> call, gets |-> 1, sent |-> <<self.params>>,
                         err |-> inval, ret |-> NoReturn]
             /\ UNCHANGED clients
        ELSE LET merged == update(self.params, query, kwargs)
             IN  IF net = <<>>
                 THEN /\ clients' = [clients EXCEPT ![i].params = merged]
                      /\ last' = [call |-> call, gets |-> 1, sent |-> <<merged>>,
                                  err |-> "TransportError", ret |-> NoReturn]
                 ELSE LET out == parse_response(self.kind, net[1])
                      IN  /\ clients' = [clients EXCEPT ![i].params = merged,
                                                        ![i].response = net]
                          /\ last' = [call |-> call, gets |-> 1, sent |-> <<merged>>,
                                      err |-> out.err, ret |-> out.ret]

\* variant: self.params is updated before the keyword arguments are validated
search_UpdateBeforeCheck(i, query, kwargs, net) ==
    LET self   == clients[i]
        call   == [called |-> TRUE, query |-> query, kwargs |-> kwargs]
        inval  == check_value(self, kwargs)
        merged == update(self.params, query, kwargs)
    IN  IF Falsy(query)
        THEN /\ last' = [call |-> call, gets |-> 0, sent |-> <<>>,
                         err |-> "ValueError", ret |-> NoReturn]
             /\ UNCHANGED clients
        ELSE IF inval # ""
        THEN /\ last' = [call |-> call, gets |-> 0, sent |-> <<>>,
                         err |-> inval, ret |-> NoReturn]
             /\ clients' = [clients EXCEPT ![i].params = merged]
        ELSE IF net = <<>>
        THEN /\ clients' = [clients EXCEPT ![i].params = merged]
             /\ last' = [call |-> call, gets |-> 1, sent |-> <<merged>>,
                         err |-> "TransportError", ret |-> NoReturn]
        ELSE LET out == parse_response(self.kind, net[1])
             IN  /\ clients' = [clients EXCEPT ![i].params = merged,
                                               ![i].response = net]
                 /\ last' = [call |-> call, gets |-> 1, sent |-> <<merged>>,
                             err |-> out.err, ret |-> out.ret]

\* The whole of search(query, **kwargs) on instance i; net is what the GET
\* yields: <<>> when requests.get or .json() raises, <<body>> otherwise.
search(i, query, kwargs, net) ==
    LET self  == clients[i]
        inval == IF Falsy(query) THEN "ValueError" ELSE check_value(self, kwargs)
        call  == [called |-> TRUE, query |-> query, kwargs |-> kwargs]
    IN  IF inval # ""
        THEN /\ last' = [call |-> call, gets |-> 0, sent |-> <<>>,
                         err |-> inval, ret |-> NoReturn]
             /\ UNCHANGED clients
        ELSE LET merged == update(self.params, query, kwargs)
             IN  IF net = <<>>
                 THEN /\ clients' = [clients EXCEPT ![i].params = merged]
                      /\ last' = [call |-> call, gets |-> 1, sent |-> <<merged>>,
                                  err |-> "TransportError", ret |-> NoReturn]
                 ELSE LET out == parse_response(self.kind, net[1])
                      IN  /\ clients' = [clients EXCEPT ![i].params = merged,
                                                        ![i].response = net]
                          /\ last' = [call |-> call, gets |-> 1, sent |-> <<merged>>,
                                      err |-> out.err, ret |-> out.ret]

(***************************************************************************)
(* Inputs: queries, keyword-argument mappings, response bodies.            *)
(***************************************************************************)
Queries == {NoQuery, "", "cats", "dogs"}

Join(f, g) ==
    [ k \in DOMAIN f \cup DOMAIN g |-> IF k \in DOMAIN f THEN f[k] ELSE g[k] ]

Single(k, v) == [ x \in {k} |-> v ]

IdxKey(kind) == IF kind = "google" THEN "start" ELSE "offset"
SizeKey(kind) == IF kind = "google" THEN "num" ELSE "count"
Floor(self) == IF self.kind = "google" THEN self.min_index ELSE self.min_index - 1

IdxVals(self) == (Floor(self) - 1) .. (Floor(self) + IdxSpan)
SizeVals(self) ==
    {self.min_index - 1, self.min_index, self.max_results_per_q,
     self.max_results_per_q + 1}

\* a key the adapter does not recognise: the other adapter's page-size option
ExtraKeys(kind) == IF kind = "google" THEN {"count"} ELSE {"num"}

Optional(k, vals) == {EmptyDict} \cup { Single(k, v) : v \in vals }

Kwargs(self) ==
    { Join(Join(a, b), [k \in D |-> 1]) :
        a \in Optional(IdxKey(self.kind), IdxVals(self)),
        b \in Optional(SizeKey(self.kind), SizeVals(self)),
        D \in SUBSET ExtraKeys(self.kind) }

Without(f, k) == [ x \in DOMAIN f \ {k} |-> f[x] ]

GoogleA ==
    [ mime |-> "image/jpeg", link |-> "http://img",
      image |-> [width |-> 100, height |-> 50, byteSize |-> 2048,
                 contextLink |-> "http://host"] ]
GoogleB ==
    [ mime |-> "png", link |-> "u",
      image |-> [width |-> 10, height |-> 20, byteSize |-> 500,
                 contextLink |-> "h"] ]

BingA ==
    [ encodingFormat |-> "image/jpeg", width |-> 100, height |-> 50,
      contentSize |-> 2048, contentUrl |-> "http://img",
      hostPageDisplayUrl |-> "http://host" ]
BingB ==
    [ encodingFormat |-> "png", width |-> 10, height |-> 20,
      contentSize |-> 500, contentUrl |-> "u", hostPageDisplayUrl |-> "h" ]

\* an entry with one expected field removed
GoogleBroken ==
    { Without(GoogleA, f) : f \in DOMAIN GoogleA } \cup
    { [GoogleA EXCEPT !["image"] = Without(GoogleA["image"], f)] :
        f \in DOMAIN GoogleA["image"] }
BingBroken == { Without(BingA, f) : f \in DOMAIN BingA }

GoodEntries(kind) == IF kind = "google" THEN {GoogleA, GoogleB} ELSE {BingA, BingB}
Entries(kind) ==
    GoodEntries(kind) \cup (IF kind = "google" THEN GoogleBroken ELSE BingBroken)

Arrays(entries, n) == UNION { [1..m -> entries] : m \in 0..n }

GoogleBodies(entries, n) ==
    {EmptyDict} \cup { Single("items", a) : a \in Arrays(entries, n) }

BingBodies(entries, n) ==
    LET meta == [nextOffset |-> 5, totalEstimatedMatches |-> 999]
    IN  {meta} \cup
        { Join(Single("value", a), [k \in D |-> meta[k]]) :
            a \in Arrays(entries, n), D \in SUBSET DOMAIN meta }

Bodies(kind, entries, n) ==
    IF kind = "google" THEN GoogleBodies(entries, n) ELSE BingBodies(entries, n)

\* the well-formed bodies with one entry
GoodBodies(kind) ==
    IF kind = "google"
    THEN { Single("items", <<e>>) : e \in GoodEntries(kind) }
    ELSE { [value |-> <<e>>, nextOffset |-> 5, totalEstimatedMatches |-> 999] :
             e \in GoodEntries(kind) }

Held(S) == { <<x>> : x \in S }

(***************************************************************************)
(* Specification of sequential use: one instance, any sequence of calls    *)
(* with any arguments; the GET fails or yields a well-formed body.         *)
(***************************************************************************)
NoCall ==
    [ call |-> [called |-> FALSE, query |-> NoQuery, kwargs |-> EmptyDict],
      gets |-> 0, sent |-> <<>>, err |-> "", ret |-> NoReturn ]

Init ==
    /\ \E kind \in Kinds : clients = [i \in {1} |-> Construct(kind)]
    /\ last = NoCall
    /\ thr = <<>>

\* no GET is sent for arguments that fail validation, so net is then immaterial
Nets(self, query, kwargs) ==
    IF Falsy(query) \/ check_value(self, kwargs) # ""
    THEN {<<>>}
    ELSE {<<>>} \cup Held(GoodBodies(self.kind))

Call ==
    \E i \in DOMAIN clients :
      \E query \in Queries, kwargs \in Kwargs(clients[i]) :
        \E net \in Nets(clients[i], query, kwargs) :
          /\ search(i, query, kwargs, net)
          /\ UNCHANGED thr

Next == Call

Spec == Init /\ [][Next]_vars

(***************************************************************************)
(* Specification of parsing: valid calls, the GET yields any body whose    *)
(* array has at most MaxItems entries, whole or broken.                    *)
(***************************************************************************)
Receive ==
    \E i \in DOMAIN clients :
      \E net \in Held(Bodies(clients[i].kind, Entries(clients[i].kind), MaxItems)) :
        /\ search(i, "cats", Single(SizeKey(clients[i].kind), 1), net)
        /\ UNCHANGED thr

NextParse == Receive

SpecParse == Init /\ [][NextParse]_vars

(***************************************************************************)
(* Specification of concurrent use: two threads, each calling search over  *)
(* and over, on one shared instance or on an instance each.  A thread's    *)
(* call is the sequence of its accesses to the instance's fields:          *)
(*   line 38-40  Begin   validation, on the thread's own arguments         *)
(*   line 42     Update  self.params.update(q=query, **kwargs)             *)
(*   line 43     Get     requests.get reads self.params and sends them     *)
(*   line 43     Store   the decoded body is assigned to self.response     *)
(*   line 44     Parse   _parse_response reads self.response               *)
(* got is the value of requests.get(...).json() before the assignment.     *)
(* Parse takes the reads of self.response as one step; a switch between    *)
(* them only adds outcomes on a shared instance and none on distinct ones. *)
(***************************************************************************)
Threads == {1, 2}

Idle(i) ==
    [ inst |-> i, pc |-> "idle", query |-> NoQuery, kwargs |-> EmptyDict,
      sent |-> <<>>, got |-> <<>>, err |-> "", ret |-> NoReturn ]

InitConc ==
    /\ clients \in [{1, 2} -> {Construct(kind) : kind \in Kinds}]
    /\ \E i \in {1, 2} : thr = [t \in Threads |-> IF t = 1 THEN Idle(1) ELSE Idle(i)]
    /\ last = NoCall

ConcQueries == {"", "cats", "dogs"}

ConcKwargs(self) ==
    { Single(SizeKey(self.kind), self.min_index),
      Join(Single(SizeKey(self.kind), self.max_results_per_q),
           Single(IdxKey(self.kind), Floor(self) + 1)) }

Begin(t) ==
    /\ thr[t].pc = "idle"
    /\ \E query \in ConcQueries, kwargs \in ConcKwargs(clients[thr[t].inst]) :
         LET self  == clients[thr[t].inst]
             inval == IF Falsy(query) THEN "ValueError" ELSE check_value(self, kwargs)
         IN  thr' = [thr EXCEPT ![t].query = query, ![t].kwargs = kwargs,
                                ![t].err = inval,
                                ![t].pc = IF inval # "" THEN "done" ELSE "checked"]
    /\ UNCHANGED <<clients, last>>

\* variant: params is one dict shared by every instance
Update_SharedDict(t) ==
    /\ thr[t].pc = "checked"
    /\ clients' = [i \in DOMAIN clients |->
                     [clients[i] EXCEPT !.params = update(@, thr[t].query, thr[t].kwargs)]]
    /\ thr' = [thr EXCEPT ![t].pc = "updated"]
    /\ UNCHANGED last

Update(t) ==
    /\ thr[t].pc = "checked"
    /\ clients' = [clients EXCEPT ![thr[t].inst].params =
                     update(@, thr[t].query, thr[t].kwargs)]
    /\ thr' = [thr EXCEPT ![t].pc = "updated"]
    /\ UNCHANGED last

Get(t) ==
    /\ thr[t].pc = "updated"
    /\ thr' = [thr EXCEPT ![t].sent = <<clients[thr[t].inst].params>>,
                          ![t].pc = "waiting"]
    /\ UNCHANGED <<clients, last>>

Store(t) ==
    /\ thr[t].pc = "waiting"
    /\ \E net \in {<<>>} \cup Held(GoodBodies(clients[thr[t].inst].kind)) :
         IF net = <<>>
         THEN /\ thr' = [thr EXCEPT ![t].err = "TransportError", ![t].pc = "done"]
              /\ UNCHANGED clients
         ELSE /\ thr' = [thr EXCEPT ![t].got = net, ![t].pc = "stored"]
              /\ clients' = [clients EXCEPT ![thr[t].inst].response = net]
    /\ UNCHANGED last

Parse(t) ==
    /\ thr[t].pc = "stored"
    /\ LET self == clients[thr[t].inst]
           out  == parse_response(self.kind, self.response[1])
       IN  thr' = [thr EXCEPT ![t].err = out.err, ![t].ret = out.ret, ![t].pc = "done"]
    /\ UNCHANGED <<clients, last>>

Finish(t) ==
    /\ thr[t].pc = "done"
    /\ thr' = [thr EXCEPT ![t] = Idle(thr[t].inst)]
    /\ UNCHANGED <<clients, last>>

NextConc ==
    \E t \in Threads :
      \/ Begin(t)
      \/ Update(t)
      \/ Get(t)
      \/ Store(t)
      \/ Parse(t)
      \/ Finish(t)

SpecConc == InitConc /\ [][NextConc]_vars

(***************************************************************************)
(* Properties.  In Spec and SpecParse the one instance is clients[1] and   *)
(* last describes the most recent call: its arguments, the number of GETs  *)
(* it issued, the parameters it sent, and what the caller got back.        *)
(***************************************************************************)
Self == clients[1]

InvalidArgument == {"ValueError", "TypeError"}

\* the ways a keyword-argument mapping can be invalid, as the specification lists them
UnknownKey(kind, kwargs) == DOMAIN kwargs \ {IdxKey(kind), SizeKey(kind)} # {}
SizeMissing(kind, kwargs) == SizeKey(kind) \notin DOMAIN kwargs
IdxOutOfRange(kind, kwargs) ==
    /\ IdxKey(kind) \in DOMAIN kwargs
    /\ kwargs[IdxKey(kind)] < (IF kind = "google" THEN 1 ELSE 0)
SizeOutOfRange(kind, kwargs) ==
    /\ SizeKey(kind) \in DOMAIN kwargs
    /\ \/ kwargs[SizeKey(kind)] < 1
       \/ kwargs[SizeKey(kind)] > (IF kind = "google" THEN 10 ELSE 150)

BadCall(kind, call) ==
    \/ call.query \in {NoQuery, ""}
    \/ UnknownKey(kind, call.kwargs)
    \/ SizeMissing(kind, call.kwargs)
    \/ IdxOutOfRange(kind, call.kwargs)
    \/ SizeOutOfRange(kind, call.kwargs)

\* C1: a call to search issues at most one GET, and none when it fails with
\* an invalid-argument error: an empty or absent query, an unknown key, a
\* missing num/count or an out-of-range start/offset/num/count is rejected
\* before any GET is sent.
C1_NoGetBeforeValidation ==
    /\ last.gets <= 1
    /\ last.err \in InvalidArgument => last.gets = 0
    /\ (last.call.called /\ BadCall(Self.kind, last.call)) =>
          (last.err \in InvalidArgument /\ last.gets = 0 /\ last.sent = <<>>)

C1_Witness ==
    /\ last.call.called
    /\ BadCall(Self.kind, last.call)
    /\ last.gets = 0
    /\ Self.response # <<>>

\* C2: the parameters sent with a call's GET are the configured base
\* parameters plus q and exactly the options of that call, whatever calls
\* came before.
C2_SentIsBasePlusCall ==
    last.gets = 1 =>
        last.sent[1] = Join(last.call.kwargs,
                            Join(Single("q", last.call.query), Construct(Self.kind).params))

\* C3: Custom Search validation of a mapping over start and num succeeds
\* exactly when num is present, 1 <= num <= 10 and start (1 when omitted)
\* is >= 1, and fails with ValueError otherwise.
C3_GoogleValidation ==
    ( /\ last.call.called
      /\ Self.kind = "google"
      /\ last.call.query \notin {NoQuery, ""}
      /\ DOMAIN last.call.kwargs \subseteq {"start", "num"} ) =>
        LET kw    == last.call.kwargs
            start == IF "start" \in DOMAIN kw THEN kw["start"] ELSE 1
            ok    == /\ "num" \in DOMAIN kw
                     /\ 1 <= kw["num"]
                     /\ kw["num"] <= 10
                     /\ start >= 1
        IN  /\ ok => last.err \notin InvalidArgument /\ last.gets = 1
            /\ ~ok => last.err = "ValueError"

C3_Witness ==
    /\ last.call.called
    /\ Self.kind = "google"
    /\ last.call.kwargs = [num |-> 10]
    /\ last.err = ""

\* C4: Web Image Search validation of a mapping over offset and count
\* succeeds exactly when count is present, 1 <= count <= 150 and offset
\* (0 when omitted) is >= 0, and fails with ValueError otherwise.
C4_BingValidation ==
    ( /\ last.call.called
      /\ Self.kind = "bing"
      /\ last.call.query \notin {NoQuery, ""}
      /\ DOMAIN last.call.kwargs \subseteq {"offset", "count"} ) =>
        LET kw     == last.call.kwargs
            offset == IF "offset" \in DOMAIN kw THEN kw["offset"] ELSE 0
            ok     == /\ "count" \in DOMAIN kw
                      /\ 1 <= kw["count"]
                      /\ kw["count"] <= 150
                      /\ offset >= 0
        IN  /\ ok => last.err \notin InvalidArgument /\ last.gets = 1
            /\ ~ok => last.err = "ValueError"

C4_Witness ==
    /\ last.call.called
    /\ Self.kind = "bing"
    /\ last.call.kwargs = [count |-> 150]
    /\ last.err = ""

\* C5 as stated: a search with an unrecognised option key fails with the
\* same kind of error as a search whose required option is missing.
C5_UnknownKeySameKind ==
    ( /\ last.call.called
      /\ last.call.query \notin {NoQuery, ""}
      /\ UnknownKey(Self.kind, last.call.kwargs) ) =>
        /\ last.err \in InvalidArgument
        /\ last.err = check_value(Self, EmptyDict)

\* C5 amended: a search with a non-empty query and an unrecognised option
\* key fails with TypeError before any GET, whatever the other options are;
\* without an unrecognised key a missing or out-of-range option fails with
\* ValueError; the caller receives the error and no result.
C5_UnknownKeyTypeError ==
    ( /\ last.call.called
      /\ last.call.query \notin {NoQuery, ""} ) =>
        /\ UnknownKey(Self.kind, last.call.kwargs) =>
              (last.err = "TypeError" /\ last.gets = 0 /\ last.ret = NoReturn)
        /\ ( /\ ~UnknownKey(Self.kind, last.call.kwargs)
             /\ BadCall(Self.kind, last.call) ) =>
              (last.err = "ValueError" /\ last.gets = 0 /\ last.ret = NoReturn)

C5_Witness ==
    /\ last.call.called
    /\ last.call.query = "cats"
    /\ UnknownKey(Self.kind, last.call.kwargs)
    /\ SizeMissing(Self.kind, last.call.kwargs)
    /\ last.err = "TypeError"

\* the specification's well-formed bodies and field mapping
Has(d, path) ==
    IF Len(path) = 1 THEN path[1] \in DOMAIN d
    ELSE path[1] \in DOMAIN d /\ path[2] \in DOMAIN d[path[1]]

At(d, path) == IF Len(path) = 1 THEN d[path[1]] ELSE d[path[1]][path[2]]

ArrayKey(kind) == IF kind = "google" THEN "items" ELSE "value"

Mapping(kind) ==
    IF kind = "google"
    THEN [ type |-> <<"mime">>, width |-> <<"image", "width">>,
           height |-> <<"image", "height">>, size |-> <<"image", "byteSize">>,
           url |-> <<"link">>, hostPage |-> <<"image", "contextLink">> ]
    ELSE [ type |-> <<"encodingFormat">>, width |-> <<"width">>,
           height |-> <<"height">>, size |-> <<"contentSize">>,
           url |-> <<"contentUrl">>, hostPage |-> <<"hostPageDisplayUrl">> ]

TopLevel(kind) ==
    IF kind = "google" THEN {"items"}
    ELSE {"value", "nextOffset", "totalEstimatedMatches"}

FieldAbsent(kind, body) ==
    \/ \E k \in TopLevel(kind) : k \notin DOMAIN body
    \/ /\ ArrayKey(kind) \in DOMAIN body
       /\ \E j \in 1..Len(body[ArrayKey(kind)]) :
            \E f \in DOMAIN Mapping(kind) :
               ~Has(body[ArrayKey(kind)][j], Mapping(kind)[f])

C7_AbsentFieldFails ==
    ( /\ last.call.called
      /\ last.gets = 1
      /\ Self.response # <<>>
      /\ FieldAbsent(Self.kind, Self.response[1]) ) =>
        /\ last.err = "KeyError"
        /\ last.ret = NoReturn

C7_Witness ==
    /\ last.call.called
    /\ last.err = "KeyError"
    /\ Self.response # <<>>
    /\ ArrayKey(Self.kind) \in DOMAIN Self.response[1]
    /\ Len(Self.response[1][ArrayKey(Self.kind)]) = 2
    /\ Self.response[1][ArrayKey(Self.kind)][1] \in GoodEntries(Self.kind)
    /\ Self.response[1][ArrayKey(Self.kind)][2] \notin GoodEntries(Self.kind)

\* C9: the configuration is what construction made it: endpoint, headers,
\* max_results_per_q (10 or 150) and min_index (1) never change, and the
\* constructed entries of params (key, cx, searchType) are still held with
\* their constructed values.
C9_ConfigurationKept ==
    LET made == Construct(Self.kind)
    IN  /\ Self.endpoint = made.endpoint
        /\ Self.headers = made.headers
        /\ Self.max_results_per_q = (IF Self.kind = "google" THEN 10 ELSE 150)
        /\ Self.min_index = 1
        /\ \A k \in DOMAIN made.params :
              k \in DOMAIN Self.params /\ Self.params[k] = made.params[k]
        /\ Self.kind = "google" =>
              /\ Self.params["key"] = ApiKey
              /\ Self.params["cx"] = CseId
              /\ Self.params["searchType"] = "image"

C9_Witness ==
    /\ Self.kind = "google"
    /\ "start" \in DOMAIN Self.params
    /\ Self.response # <<>>
    /\ last.err \in InvalidArgument

\* C10: a call that fails validation leaves the instance as it was: the
\* held params and the held response are those from before the call.
C10_RejectedCallChangesNothing ==
    [][ (last'.call.called /\ last'.err \in InvalidArgument) => clients' = clients ]_vars

C10_Witness ==
    /\ last.err \in InvalidArgument
    /\ last.call.query \in {"cats", "dogs"}
    /\ Self.response # <<>>
    /\ "q" \in DOMAIN Self.params
    /\ Self.params["q"] # last.call.query

(***************************************************************************)
(* Properties of concurrent use (SpecConc).                                *)
(***************************************************************************)
\* the GET of thread t carried a query or an option other than t's own
GetCarriesOther(t) ==
    /\ thr[t].sent # <<>>
    /\ \/ thr[t].sent[1]["q"] # thr[t].query
       \/ \E k \in DOMAIN thr[t].kwargs : thr[t].sent[1][k] # thr[t].kwargs[k]

\* the result of thread t was parsed from a body other than the one t's GET yielded
ParsedFromOther(t) ==
    /\ thr[t].pc = "done"
    /\ thr[t].got # <<>>
    /\ thr[t].ret # parse_response(clients[thr[t].inst].kind, thr[t].got[1]).ret

Shares(t) == \E u \in Threads \ {t} : thr[u].inst = thr[t].inst

\* C8: a caller's GET carries another caller's query or options, or its
\* result is parsed from another caller's response, only when the callers
\* share an instance; on a shared instance both happen.
C8_InterferenceOnlyWhenShared ==
    \A t \in Threads : (GetCarriesOther(t) \/ ParsedFromOther(t)) => Shares(t)

C8_Witness ==
    \E t \in Threads : Shares(t) /\ GetCarriesOther(t) /\ ParsedFromOther(t)

====
